---- MODULE Spec2Model ----
(***************************************************************************)
(* Briefing pipeline orchestrator (src/agents/briefing/pipeline.js) with   *)
(* its triggers (src/agents/briefing/index.js) and the store rows it       *)
(* writes.  One action per awaited step of runPipeline; the synchronous    *)
(* code around an await (progress events, throws) belongs to the action.   *)
(***************************************************************************)
EXTENDS Integers, Sequences, FiniteSets, TLC

\* ---- bounds -------------------------------------------------------------
MaxFetch == 2                 \* longest candidate list one collection returns
MaxRows == 2                  \* most RawItems in the store when dedup is called alone
MaxQueries == 3               \* most active search queries or feeds
MaxScored == 3                \* most items handed to scoreItems called alone
MaxParagraphs == 8            \* most non-empty paragraphs of a script

\* ---- program constants --------------------------------------------------
NoId == 0                     \* null / undefined identifier
NoScore == -1                 \* relevance_score IS NULL
NotANumber == -2              \* a score that is undefined or not numeric
minScoreDefault == 6
maxItemsDefault == 12
minItemsDefault == 8
FallbackScore == 5
maxQueriesDefault == 6
NoLimit == 0                  \* options.limit not given

Runs == {1, 2}

\* ---- titles: strings as character sequences -----------------------------
ToLowerCase(t) == [i \in 1..Len(t) |-> IF t[i] = "A" THEN "a" ELSE t[i]]

RECURSIVE TrimStart(_)
TrimStart(t) ==
  IF t = <<>> THEN <<>>
  ELSE IF Head(t) = " " THEN TrimStart(Tail(t)) ELSE t

RECURSIVE TrimEnd(_)
TrimEnd(t) ==
  IF t = <<>> THEN <<>>
  ELSE IF t[Len(t)] = " " THEN TrimEnd(SubSeq(t, 1, Len(t) - 1)) ELSE t

Trim(t) == TrimEnd(TrimStart(t))

NormTitle(t) == Trim(ToLowerCase(t))

\* ---- candidates an adapter can return -----------------------------------
Candidate(u, t) == [url |-> u, title |-> t, id |-> NoId, tempId |-> NoId]

Pool == { Candidate("u1", <<"A">>),
          Candidate("u2", <<"a", " ">>),
          Candidate("", <<"b">>) }

RECURSIVE SeqsUpTo(_, _)
SeqsUpTo(S, n) ==
  IF n = 0 THEN { <<>> }
  ELSE LET shorter == SeqsUpTo(S, n - 1)
       IN shorter \cup { Append(s, x) : s \in { q \in shorter : Len(q) = n - 1 }, x \in S }

Fetches == SeqsUpTo(Pool, MaxFetch)

\* two runs on the same day find nothing or the same article
FetchesConcurrent == { <<>>, << Candidate("u1", <<"A">>) >> }

\* what the web search returns: any result list ("daily") or, for runs of
\* the same day, the same article ("sameDay")
Results(a) == IF a = "daily" THEN Fetches ELSE FetchesConcurrent

\* ---- store rows ---------------------------------------------------------
RawRow(i, c, rec, r) ==
  [id |-> i, url |-> c.url, title |-> c.title, recent |-> rec,
   episode_id |-> NoId, relevance_score |-> NoScore, run |-> r]

Preloads == { <<>>,
              << RawRow(1, Candidate("u1", <<"A">>), TRUE, 0) >>,
              << RawRow(1, Candidate("u1", <<"A">>), FALSE, 0) >> }

\* ---- recency dedup (pipeline.js 72-90) ----------------------------------
Range(s) == { s[i] : i \in 1..Len(s) }

\* the title test left out: only a repeated url removes a candidate
KeepsUnlessSameUrl(item, recentUrls, recentTitles) ==
  ~(item.url # "" /\ item.url \in recentUrls)

Keeps(item, recentUrls, recentTitles) ==
  /\ ~(item.url # "" /\ item.url \in recentUrls)
  /\ ~(item.title # <<>> /\ NormTitle(item.title) \in recentTitles)

Dedupe(its, recentItems) ==
  IF recentItems = <<>> THEN its
  ELSE LET recentUrls == { x.url : x \in Range(recentItems) } \ { "" }
           recentTitles == { NormTitle(x.title) : x \in Range(recentItems) } \ { <<>> }
           deduped == SelectSeq(its, LAMBDA it : Keeps(it, recentUrls, recentTitles))
       IN IF Len(its) - Len(deduped) > 0 THEN deduped ELSE its

\* the window narrowed to the rows an Episode has claimed
RecentRowsOfEpisodes(rows) ==
  SelectSeq(rows, LAMBDA x : x.recent /\ x.episode_id # NoId)

\* the rows the dedup query returns: fetched_at >= now - 7 days
RecentRows(rows) == SelectSeq(rows, LAMBDA x : x.recent)

\* items.forEach((item, i) => item._tempId = `temp-${i}`): temporary
\* identifiers are the negative numbers -(i+1), durable ones are positive
WithTempIds(its) == [i \in 1..Len(its) |-> [its[i] EXCEPT !.tempId = 0 - i]]

\* the mapping left out: the items keep only their temporary identifiers
MapIdsSkipped(its, rows) == its

\* items[i].id = insertedRows[i].id
MapIds(its, rows) == [i \in 1..Len(its) |-> [its[i] EXCEPT !.id = rows[i].id]]

\* ---- scoreItems (scorer.js 29-128) --------------------------------------
ScoringId(item) == IF item.id # NoId THEN item.id ELSE item.tempId

\* scoreMap.get(id): the last entry of the response for that id wins
RECURSIVE Lookup(_, _)
Lookup(scores, id) ==
  IF scores = <<>> THEN NoScore
  ELSE IF scores[Len(scores)].id = id THEN scores[Len(scores)].score
  ELSE Lookup(SubSeq(scores, 1, Len(scores) - 1), id)

Attach(item, scores) ==
  LET s == Lookup(scores, ScoringId(item))
  IN [url |-> item.url, title |-> item.title, id |-> item.id, tempId |-> item.tempId,
      relevance_score |-> IF s = NoScore THEN 0 ELSE s]

\* (a, b) => b.relevance_score - a.relevance_score is negative, a goes
\* first; a difference that is NaN counts as 0
Precedes(a, b) ==
  /\ a.relevance_score # NotANumber
  /\ b.relevance_score # NotANumber
  /\ a.relevance_score > b.relevance_score

\* Array.prototype.sort for an array of fewer than 64 elements: the leading
\* run is taken as it is (reversed when strictly descending for the
\* comparator) and the other elements are placed by binary insertion
RECURSIVE RunEnd(_, _, _)
RunEnd(s, k, descending) ==
  IF k > Len(s) THEN Len(s)
  ELSE IF Precedes(s[k], s[k - 1]) = descending THEN RunEnd(s, k + 1, descending)
  ELSE k - 1

Reverse(s) == [i \in 1..Len(s) |-> s[Len(s) + 1 - i]]

\* number of elements of sorted[left+1 .. right] that stay before x
RECURSIVE InsertionPoint(_, _, _, _)
InsertionPoint(sorted, x, left, right) ==
  IF left >= right THEN left
  ELSE LET mid == left + ((right - left) \div 2)
       IN IF Precedes(x, sorted[mid + 1])
          THEN InsertionPoint(sorted, x, left, mid)
          ELSE InsertionPoint(sorted, x, mid + 1, right)

InsertDesc(sorted, x) ==
  LET k == InsertionPoint(sorted, x, 0, Len(sorted))
  IN SubSeq(sorted, 1, k) \o << x >> \o SubSeq(sorted, k + 1, Len(sorted))

RECURSIVE InsertAll(_, _)
InsertAll(sorted, rest) ==
  IF rest = <<>> THEN sorted
  ELSE InsertAll(InsertDesc(sorted, Head(rest)), Tail(rest))

SortDesc(s) ==
  IF Len(s) < 2 THEN s
  ELSE LET descending == Precedes(s[2], s[1])
           e == RunEnd(s, 3, descending)
           first == SubSeq(s, 1, e)
       IN InsertAll(IF descending THEN Reverse(first) ELSE first,
                    SubSeq(s, e + 1, Len(s)))

Slice(s, n) == SubSeq(s, 1, IF Len(s) < n THEN Len(s) ELSE n)

\* the relaxation left out: only the items at or above minScore are taken
SelectWithoutRelaxing(scoredItems, minScore, minItems, maxItems) ==
  Slice(SelectSeq(scoredItems, LAMBDA x : x.relevance_score >= minScore), maxItems)

Select(scoredItems, minScore, minItems, maxItems) ==
  LET above == SelectSeq(scoredItems, LAMBDA x : x.relevance_score >= minScore)
      filtered == IF Len(above) < minItems THEN Slice(scoredItems, minItems) ELSE above
  IN Slice(filtered, maxItems)

\* resp.kind: "garbage" (no JSON array, or invalid JSON), "scores" (an
\* array of objects; one without numeric score has score NotANumber) or
\* "scalars" (an array of numbers or strings: s.id and s.score are undefined)
ScoreItems(its, resp, minScore, minItems, maxItems) ==
  IF its = <<>> THEN <<>>
  ELSE IF resp.kind = "garbage"
  THEN LET head == Slice(its, maxItems)
       IN [i \in 1..Len(head) |->
             [url |-> head[i].url, title |-> head[i].title, id |-> head[i].id,
              tempId |-> head[i].tempId, relevance_score |-> FallbackScore]]
  ELSE Select(SortDesc([i \in 1..Len(its) |-> Attach(its[i], resp.scores)]),
              minScore, minItems, maxItems)

\* scoring responses the pipeline model draws from: unparsable text, or an
\* array that scores each item 7 or leaves it out
ScoreChoices == { "high", "absent" }
ResponseFor(its, choice) ==
  [kind |-> "scores",
   scores |-> SelectSeq([i \in 1..Len(its) |-> [id |-> ScoringId(its[i]), score |-> 7]],
                        LAMBDA e : \E i \in 1..Len(its) :
                                      /\ ScoringId(its[i]) = e.id
                                      /\ choice[i] = "high")]
ScoreResponses(its) ==
  { [kind |-> "garbage", scores |-> <<>>] }
    \cup { ResponseFor(its, ch) : ch \in [1..Len(its) -> ScoreChoices] }

\* ---- state ---------------------------------------------------------------
VARIABLES
  rawItems,    \* briefing_raw_items: sequence of rows, id = position
  episodes,    \* briefing_episodes: sequence of rows, id = position
  pc,          \* per run: the step runPipeline is about to execute
  sink,        \* per run: options.onStatus ("none", "ok", "throws", "sse")
  items,       \* per run: const items
  scoredItems, \* per run: const scoredItems
  scriptResult,\* per run: const scriptResult
  episodeId,   \* per run: let episodeId
  idx,         \* per run: position of the backfill loop in scoredItems
  err,         \* per run: the error caught at pipeline.js:262
  result,      \* per run: "running", "null", "episode" or "throw"
  thrown,      \* per run: the error runPipeline rejected with
  sent,        \* per run: notify() calls made, in order
  failMark,    \* per run: outcome of the status 'failed' update
  logged,      \* per run: 'Failed to mark episode as failed' was logged
  hist,        \* per run: collaborator outcomes consumed, in order
  disc,        \* per run: clientDisconnected of GET /generate/stream
  keepAlive,   \* per run: the keep-alive interval is armed
  reply,       \* per run: final SSE frame ("none", "complete", "error", "dropped")
  adapter,     \* what fetchSearchResults can return: "daily" or "sameDay"
  dedup,       \* one call of the recency dedup step on its own
  search,      \* one call of a source adapter on its own
  scorer,      \* one call of scoreItems on its own
  parser,      \* one call of parseSections on its own
  writer,      \* one call of writeScript on its own
  migrate,     \* the migration runner over a sequence of server startups
  caught,      \* per run: what became of the rejection at the trigger
  events,      \* per run: the progress events handed to the sink, in order
  late,        \* per run: a frame was written to a closed or ended response
  pings        \* per run: keep-alive frames written

vars == << rawItems, episodes, pc, sink, items, scoredItems, scriptResult,
           episodeId, idx, err, result, thrown, sent, failMark, logged, hist,
           disc, keepAlive, reply, adapter, dedup, search, scorer, parser,
           writer, migrate, caught, events, late, pings >>

store == << rawItems, episodes >>
locals == << items, scoredItems, scriptResult, episodeId, idx >>
env == << adapter, dedup, search, scorer, parser, writer, migrate >>
stream == << disc, keepAlive, reply, caught, pings, env >>
progress == << events, late >>

NoScript == [clean |-> "none", summary |-> "none"]

InitRuns ==
  /\ episodes = <<>>
  /\ pc = [r \in Runs |-> "idle"]
  /\ sink = [r \in Runs |-> "none"]
  /\ items = [r \in Runs |-> <<>>]
  /\ scoredItems = [r \in Runs |-> <<>>]
  /\ scriptResult = [r \in Runs |-> NoScript]
  /\ episodeId = [r \in Runs |-> NoId]
  /\ idx = [r \in Runs |-> 1]
  /\ err = [r \in Runs |-> "none"]
  /\ result = [r \in Runs |-> "running"]
  /\ thrown = [r \in Runs |-> "none"]
  /\ sent = [r \in Runs |-> <<>>]
  /\ failMark = [r \in Runs |-> "none"]
  /\ logged = [r \in Runs |-> FALSE]
  /\ hist = [r \in Runs |-> <<>>]
  /\ disc = [r \in Runs |-> FALSE]
  /\ keepAlive = [r \in Runs |-> FALSE]
  /\ reply = [r \in Runs |-> "none"]
  /\ caught = [r \in Runs |-> "none"]
  /\ events = [r \in Runs |-> <<>>]
  /\ late = [r \in Runs |-> FALSE]
  /\ pings = [r \in Runs |-> 0]

\* the stages are not called on their own
Unused == [phase |-> "unused"]
NoCalls ==
  /\ dedup = Unused
  /\ search = Unused
  /\ scorer = Unused
  /\ parser = Unused
  /\ writer = Unused
  /\ migrate = Unused

Init ==
  /\ rawItems \in Preloads
  /\ adapter = "daily"
  /\ InitRuns
  /\ NoCalls

\* ---- building blocks ----------------------------------------------------
Token(c, o, n) == [call |-> c, out |-> o, n |-> n]
Record(r, c, o, n) == hist' = [hist EXCEPT ![r] = Append(@, Token(c, o, n))]

\* a store call resolves with data, resolves with { error }, or rejects
StoreOutcomes == { "ok", "error", "throw" }

\* a write the run depends on: `if (error) throw new Error(..)` and a
\* rejection both end in the catch block
Fatal(out) == IF out = "ok" THEN "ok" ELSE "fail"

\* the SSE sink without its guard and try/catch: a write to a closed
\* response raises
SinkThrowsOnClosedStream(r) == sink[r] = "throws" \/ (sink[r] = "sse" /\ disc[r])

\* onStatus(event) raises: only a caller-supplied sink can; the default
\* sink is () => {} and the SSE sink guards and wraps its write
SinkThrows(r) == sink[r] = "throws"

\* which of the k onStatus calls of a step raises (0: none)
ThrowPoints(r, k) == IF SinkThrows(r) THEN 0..k ELSE { 0 }

\* control reaches catch (err) at pipeline.js:262
Catch(r, e) ==
  /\ pc' = [pc EXCEPT ![r] = "catch"]
  /\ err' = [err EXCEPT ![r] = e]
  /\ UNCHANGED << result, thrown, sent >>

Goto(r, p) ==
  /\ pc' = [pc EXCEPT ![r] = p]
  /\ UNCHANGED << err, result, thrown, sent >>

\* a progress event: onStatus({ step, status, .. })
Event(step, status) == [step |-> step, status |-> status]

\* the SSE sink writes although the client is gone
WritesFrameUnguarded(r) == sink[r] = "sse"

\* if (clientDisconnected) return, index.js:251 (and 261, 269)
WritesFrame(r) == sink[r] = "sse" /\ ~disc[r]

\* the client has disconnected or res.end() was called
Closed(r) == disc[r] \/ reply[r] \in { "complete", "error" }

\* onStatus(event) for each event: the sink is handed it, and the SSE sink
\* writes a status frame
Emit(r, evs) ==
  /\ events' = [events EXCEPT ![r] = @ \o evs]
  /\ late' = [late EXCEPT ![r] = @ \/ (evs # <<>> /\ WritesFrame(r) /\ Closed(r))]

\* a sink that buffers the calls of a step and hands them on last first
DeliveredLastFirst(evs, t) ==
  IF t = 0 THEN Reverse(evs) ELSE SubSeq(evs, 1, t - 1)

\* the events the sink took before call number t raised (0: none raised)
Delivered(evs, t) == IF t = 0 THEN evs ELSE SubSeq(evs, 1, t - 1)

\* a stage error: control reaches the catch, no event
Raise(r, e) == Catch(r, e) /\ UNCHANGED progress

\* on to the next await, no event
Pass(r, p) == Goto(r, p) /\ UNCHANGED progress

\* the onStatus calls evs, then on to p
Advance(r, evs, p) ==
  \E t \in ThrowPoints(r, Len(evs)) :
    /\ Emit(r, Delivered(evs, t))
    /\ IF t > 0 THEN Catch(r, "sink") ELSE Goto(r, p)

\* onStatus(skipped); await notify(skip); return null
Skip(r, before, step) ==
  \E t \in ThrowPoints(r, 1) :
    IF t = 1 THEN Catch(r, "sink") /\ Emit(r, before)
    ELSE /\ pc' = [pc EXCEPT ![r] = "done"]
         /\ sent' = [sent EXCEPT ![r] = Append(@, "skipped")]
         /\ result' = [result EXCEPT ![r] = "null"]
         /\ Emit(r, Append(before, Event(step, "skipped")))
         /\ UNCHANGED << err, thrown >>

\* ---- triggers (index.js) ------------------------------------------------
StartRun(r, s, rep) ==
  /\ pc[r] = "idle"
  /\ reply[r] = "none"
  /\ pc' = [pc EXCEPT ![r] = "diag"]
  /\ sink' = [sink EXCEPT ![r] = s]
  /\ keepAlive' = [keepAlive EXCEPT ![r] = (s = "sse")]
  /\ reply' = [reply EXCEPT ![r] = rep]
  /\ UNCHANGED << store, locals, err, result, thrown, sent, failMark, logged,
                  hist, progress, disc, caught, pings, env >>

\* the provider named in the request body of POST /generate
Providers == { "absent", "known", "unknown" }

\* POST /generate (index.js 279-305): an unknown provider is answered 400
\* and nothing starts; otherwise runPipeline({ provider, lite: true }) is
\* called, .catch is attached and 202 'started' is sent in the same turn
TriggerGenerate(r) ==
  \E provider \in Providers :
    IF provider = "unknown"
    THEN /\ pc[r] = "idle"
         /\ reply[r] = "none"
         /\ reply' = [reply EXCEPT ![r] = "invalid"]
         /\ UNCHANGED << store, pc, sink, locals, err, result, thrown, sent,
                         failMark, logged, hist, progress, disc, keepAlive, caught, pings, env >>
    ELSE StartRun(r, "none", "started")

\* the cron job (index.js 311-316): runPipeline({ lite: true }).catch(log)
TriggerCron(r) == StartRun(r, "none", "none")

\* GET /generate/stream: runPipeline({ provider, onStatus, lite: true })
TriggerStream(r) == StartRun(r, "sse", "none")

\* runPipeline({ onStatus }) with a sink supplied by the caller
CallWithSink(r) == \E s \in { "ok", "throws" } : StartRun(r, s, "none")

\* ---- runPipeline --------------------------------------------------------
\* lines 28-39: the two diagnostic counts; an { error } is only logged
Diagnostics(r) ==
  /\ pc[r] = "diag"
  /\ \E out \in { "ok", "throw" } :
       /\ Record(r, "diag", out, 0)
       /\ IF out = "throw" THEN Raise(r, "diagnostics") ELSE Pass(r, "collect")
  /\ UNCHANGED << store, sink, locals, failMark, logged, stream >>

\* lines 41-61: step 1 and the first early exit
Collect(r) ==
  /\ pc[r] = "collect"
  /\ \/ /\ SinkThrows(r)
        /\ Catch(r, "sink")
        /\ UNCHANGED << items, hist, progress >>
     \/ \E out \in { "ok", "throw" } :
          \E got \in IF out = "throw" THEN { <<>> } ELSE Results(adapter) :
             /\ Record(r, "fetch", out, Len(got))
             /\ items' = [items EXCEPT ![r] = got]
             /\ IF got = <<>> THEN Skip(r, << Event(1, "running") >>, 2)
                ELSE Goto(r, "dedupe") /\ Emit(r, << Event(1, "running") >>)
  /\ UNCHANGED << store, sink, scoredItems, scriptResult, episodeId, idx,
                  failMark, logged, stream >>

\* the error of the read checked as well
AbortsOnReadError(out) == out # "ok"

\* const { data: recentItems } = await ..: only a rejection leaves the try
AbortsOnRead(out) == out = "throw"

\* lines 65-105: recency dedup, the second early exit, temp ids
Deduplicate(r) ==
  /\ pc[r] = "dedupe"
  /\ \E out \in StoreOutcomes :
       LET recentItems == IF out = "ok" THEN RecentRows(rawItems) ELSE <<>>
           kept == Dedupe(items[r], recentItems)
       IN /\ Record(r, "recent", out, Len(items[r]) - Len(kept))
          /\ IF AbortsOnRead(out)
             THEN Raise(r, "recentRead") /\ UNCHANGED items
             ELSE IF kept = <<>>
             THEN Skip(r, <<>>, 2) /\ items' = [items EXCEPT ![r] = kept]
             ELSE \E t \in ThrowPoints(r, 2) :
                    /\ Emit(r, Delivered(<< Event(1, "completed"),
                                            Event(4, "running") >>, t))
                    /\ items' = [items EXCEPT ![r] =
                                   IF t = 1 THEN kept ELSE WithTempIds(kept)]
                    /\ IF t > 0 THEN Catch(r, "sink") ELSE Goto(r, "insert")
  /\ UNCHANGED << store, sink, scoredItems, scriptResult, episodeId, idx,
                  failMark, logged, stream >>

\* lines 107-142: step 4, bulk insert and the id mapping
InsertRawItems(r) ==
  /\ pc[r] = "insert"
  /\ \E out \in StoreOutcomes :
       /\ Record(r, "insert", Fatal(out), 0)
       /\ IF out = "ok"
          THEN LET n == Len(rawItems)
                   insertedRows == [i \in 1..Len(items[r]) |->
                                      RawRow(n + i, items[r][i], TRUE, r)]
               IN /\ rawItems' = rawItems \o insertedRows
                  /\ items' = [items EXCEPT ![r] = MapIds(@, insertedRows)]
                  /\ Advance(r, << Event(4, "completed"), Event(5, "running") >>,
                             "score")
          ELSE /\ Raise(r, "insertRaw")
               /\ UNCHANGED << rawItems, items >>
  /\ UNCHANGED << episodes, sink, scoredItems, scriptResult, episodeId, idx,
                  failMark, logged, stream >>

\* lines 143-156: step 5, scoreItems and the third early exit
Score(r) ==
  /\ pc[r] = "score"
  /\ \/ /\ Record(r, "score", "throw", 0)
        /\ Raise(r, "score")
        /\ UNCHANGED scoredItems
     \/ \E resp \in ScoreResponses(items[r]) :
          LET sel == ScoreItems(items[r], resp, minScoreDefault, minItemsDefault,
                                maxItemsDefault)
          IN /\ Record(r, "score", resp.kind, Len(resp.scores))
             /\ scoredItems' = [scoredItems EXCEPT ![r] = sel]
             /\ \E t \in ThrowPoints(r, 1) :
                  IF t > 0 THEN Catch(r, "sink") /\ UNCHANGED progress
                  ELSE IF sel = <<>>
                  THEN Skip(r, << Event(5, "completed") >>, 5)
                  ELSE \E u \in ThrowPoints(r, 1) :
                         /\ Emit(r, << Event(5, "completed") >>
                                      \o Delivered(<< Event(6, "running") >>, u))
                         /\ IF u > 0 THEN Catch(r, "sink") ELSE Goto(r, "write")
  /\ UNCHANGED << store, sink, items, scriptResult, episodeId, idx,
                  failMark, logged, stream >>

\* lines 157-168: step 6, writeScript (scriptWriter.js 30-79)
\*   "short": fewer than 200 characters; "thin": at least 200 characters
\*   but a clean_script under 100 once the markers are stripped;
\*   the summary is the trimmed text of the reply ("ai", possibly empty)
\*   or the fallback sentence
WriteScript(r) ==
  /\ pc[r] = "write"
  /\ \E out \in { "throw", "short", "thin", "ok" } :
       /\ Record(r, "script", IF out \in { "throw", "short" } THEN "fail" ELSE out, 0)
       /\ IF out \in { "throw", "short" }
          THEN Raise(r, "script") /\ UNCHANGED scriptResult
          ELSE /\ \E sm \in { "ai", "fallback" } :
                    scriptResult' = [scriptResult EXCEPT ![r] =
                                       [clean |-> out, summary |-> sm]]
               /\ Advance(r, << Event(6, "completed"), Event(7, "running") >>,
                          "create")
  /\ UNCHANGED << store, sink, items, scoredItems, episodeId, idx,
                  failMark, logged, stream >>

\* the update keyed by the run's date instead: .eq('date', date) reaches
\* every Episode of the day
UpdateEpisodeByDate(eps, id, st, au) ==
  [i \in 1..Len(eps) |-> [eps[i] EXCEPT !.status = st, !.audio = au]]

\* .update(fields).eq('id', id) on briefing_episodes
UpdateEpisode(eps, id, st, au) ==
  [i \in 1..Len(eps) |->
     IF i = id THEN [eps[i] EXCEPT !.status = st, !.audio = au] ELSE eps[i]]

\* .update({ episode_id, relevance_score }).eq('id', id) on briefing_raw_items
UpdateRawItem(rows, id, ep, sc) ==
  [i \in 1..Len(rows) |->
     IF rows[i].id = id
     THEN [rows[i] EXCEPT !.episode_id = ep, !.relevance_score = sc]
     ELSE rows[i]]

\* the row written before the script exists
EpisodeRowWithoutScript(r) ==
  [status |-> "pending", audio |-> FALSE, run |-> r,
   clean_script |-> NoScript.clean, summary |-> NoScript.summary]

\* the row of .insert({ date, script, .., status: 'pending' }): the id is
\* the position in the table, audio_url is null, run is the creator
EpisodeRow(r) ==
  [status |-> "pending", audio |-> FALSE, run |-> r,
   clean_script |-> scriptResult[r].clean, summary |-> scriptResult[r].summary]

\* lines 166-194: step 7, the Episode insert
CreateEpisode(r) ==
  /\ pc[r] = "create"
  /\ \E out \in StoreOutcomes :
       /\ Record(r, "create", Fatal(out), 0)
       /\ IF out = "ok"
          THEN /\ episodes' = Append(episodes, EpisodeRow(r))
               /\ episodeId' = [episodeId EXCEPT ![r] = Len(episodes) + 1]
               /\ Advance(r, << Event(7, "completed"), Event(8, "running") >>,
                          "audio")
          ELSE /\ Raise(r, "createEpisode")
               /\ UNCHANGED << episodes, episodeId >>
  /\ UNCHANGED << rawItems, sink, items, scoredItems, scriptResult, idx,
                  failMark, logged, stream >>

\* what generateAudio does (tts.js 16-82) for a clean script
AudioOutcomes(clean) ==
  IF clean = "thin" THEN { "tooShort" }
  ELSE { "ok", "ttsThrow", "uploadError", "uploadThrow" }

\* lines 192-207: step 8, generateAudio
GenerateAudio(r) ==
  /\ pc[r] = "audio"
  /\ \E out \in AudioOutcomes(scriptResult[r].clean) :
       /\ Record(r, "audio", Fatal(out), 0)
       /\ IF out = "ok"
          THEN Advance(r, << Event(8, "completed"), Event(9, "running") >>,
                       "finalize")
          ELSE Raise(r, "audio")
  /\ UNCHANGED << store, sink, locals, failMark, logged, stream >>

\* lines 208-223: step 9, the 'generated' update
Finalize(r) ==
  /\ pc[r] = "finalize"
  /\ \E out \in StoreOutcomes :
       /\ Record(r, "generated", Fatal(out), 0)
       /\ IF out = "ok"
          THEN /\ episodes' = UpdateEpisode(episodes, episodeId[r], "generated", TRUE)
               /\ Advance(r, << Event(10, "running") >>, "backfill")
          ELSE /\ Raise(r, "updateEpisode")
               /\ UNCHANGED episodes
  /\ UNCHANGED << rawItems, sink, locals, failMark, logged, stream >>

\* lines 224-232: step 10, one iteration of the per-item update loop
Backfill(r) ==
  /\ pc[r] = "backfill"
  /\ idx[r] <= Len(scoredItems[r])
  /\ \E out \in StoreOutcomes :
       LET item == scoredItems[r][idx[r]]
       IN /\ Record(r, "backfill", out, 0)
          /\ rawItems' = IF out = "ok"
                         THEN UpdateRawItem(rawItems, item.id, episodeId[r],
                                            item.relevance_score)
                         ELSE rawItems
          /\ idx' = [idx EXCEPT ![r] = @ + 1]
          /\ IF out = "throw" THEN Raise(r, "backfill") ELSE Pass(r, "backfill")
  /\ UNCHANGED << episodes, sink, items, scoredItems, scriptResult, episodeId,
                  failMark, logged, stream >>

\* lines 234-261: step 11, the 'episode ready' notification and the return
Publish(r) ==
  /\ pc[r] = "backfill"
  /\ idx[r] > Len(scoredItems[r])
  /\ \E t \in ThrowPoints(r, 2) :
       IF t = 1
       THEN Catch(r, "sink") /\ UNCHANGED progress
       ELSE /\ sent' = [sent EXCEPT ![r] = Append(@, "ready")]
            /\ Emit(r, Delivered(<< Event(11, "running"),
                                    Event(11, "completed") >>, t))
            /\ IF t = 2
               THEN /\ pc' = [pc EXCEPT ![r] = "catch"]
                    /\ err' = [err EXCEPT ![r] = "sink"]
                    /\ UNCHANGED << result, thrown >>
               ELSE /\ pc' = [pc EXCEPT ![r] = "done"]
                    /\ result' = [result EXCEPT ![r] = "episode"]
                    /\ UNCHANGED << err, thrown >>
  /\ UNCHANGED << store, sink, locals, failMark, logged, hist, stream >>

\* the guard left out: the update is issued for every failure
ShouldMarkFailedAlways(r) == TRUE

\* if (episodeId) at pipeline.js:267
ShouldMarkFailed(r) == episodeId[r] # NoId

\* .update({ status: 'failed', metadata }).eq('id', id)
MarkFailed(eps, id) ==
  [i \in 1..Len(eps) |-> IF i = id THEN [eps[i] EXCEPT !.status = "failed"] ELSE eps[i]]

\* lines 262-276: catch: the 'failed' event and the best-effort update
\*   await supabase.from(..).update(..).eq('id', episodeId).catch(log)
HandleFailure(r) ==
  /\ pc[r] = "catch"
  /\ \/ /\ SinkThrows(r)
        /\ pc' = [pc EXCEPT ![r] = "done"]
        /\ result' = [result EXCEPT ![r] = "throw"]
        /\ thrown' = [thrown EXCEPT ![r] = "sink"]
        /\ UNCHANGED << episodes, failMark, logged, hist, progress >>
     \/ /\ ~ShouldMarkFailed(r)
        /\ Emit(r, << Event(0, "failed") >>)
        /\ pc' = [pc EXCEPT ![r] = "notifyFailed"]
        /\ UNCHANGED << episodes, failMark, logged, hist, result, thrown >>
     \/ /\ ShouldMarkFailed(r)
        /\ Emit(r, << Event(0, "failed") >>)
        /\ \E out \in StoreOutcomes :
             /\ Record(r, "failed", out, 0)
             /\ failMark' = [failMark EXCEPT ![r] = out]
             /\ logged' = [logged EXCEPT ![r] = (out = "throw")]
             /\ episodes' = IF out = "ok" THEN MarkFailed(episodes, episodeId[r])
                            ELSE episodes
        /\ pc' = [pc EXCEPT ![r] = "notifyFailed"]
        /\ UNCHANGED << result, thrown >>
  /\ UNCHANGED << rawItems, sink, locals, err, sent, stream >>

\* lines 278-280: the failure notification, then throw err
NotifyFailed(r) ==
  /\ pc[r] = "notifyFailed"
  /\ sent' = [sent EXCEPT ![r] = Append(@, "failed")]
  /\ pc' = [pc EXCEPT ![r] = "done"]
  /\ result' = [result EXCEPT ![r] = "throw"]
  /\ thrown' = [thrown EXCEPT ![r] = err[r]]
  /\ UNCHANGED << store, sink, locals, err, failMark, logged, hist, progress, stream >>

\* ---- GET /generate/stream (index.js 242-275) ----------------------------
\* req.on('close'): clientDisconnected = true; clearInterval(keepAlive)
ClientDisconnect(r) ==
  /\ sink[r] = "sse"
  /\ pc[r] # "idle"
  /\ ~disc[r]
  /\ disc' = [disc EXCEPT ![r] = TRUE]
  /\ keepAlive' = [keepAlive EXCEPT ![r] = FALSE]
  /\ UNCHANGED << store, pc, sink, locals, err, result, thrown, sent, failMark,
                  logged, hist, progress, reply, caught, pings, env >>

\* the .then / .catch callbacks of the run (index.js 259-275): the complete
\* or error frame and res.end() unless the client is gone, then
\* clearInterval(keepAlive)
StreamSettle(r) ==
  /\ sink[r] = "sse"
  /\ pc[r] = "done"
  /\ reply[r] = "none"
  /\ reply' = [reply EXCEPT ![r] =
                 IF ~WritesFrame(r) THEN "dropped"
                 ELSE IF result[r] = "throw" THEN "error" ELSE "complete"]
  /\ late' = [late EXCEPT ![r] = @ \/ (WritesFrame(r) /\ Closed(r))]
  /\ keepAlive' = [keepAlive EXCEPT ![r] = FALSE]
  /\ UNCHANGED << store, pc, sink, locals, err, result, thrown, sent, failMark,
                  logged, hist, events, disc, caught, pings, env >>

\* keep-alive frames counted per run
MaxPings == 2

\* the setInterval callback (index.js 237-239): res.write(': keep-alive')
\* with no guard of its own, every 15 s until the timer is cleared
KeepAliveTick(r) ==
  /\ keepAlive[r]
  /\ pings[r] < MaxPings
  /\ pings' = [pings EXCEPT ![r] = @ + 1]
  /\ late' = [late EXCEPT ![r] = @ \/ Closed(r)]
  /\ UNCHANGED << store, pc, sink, locals, err, result, thrown, sent, failMark,
                  logged, hist, events, disc, keepAlive, reply, caught, env >>

\* the rejection handler left off the call
OnRejectedMissing == "unhandled"

\* .catch(err => logger.error(..)) at index.js:292 and index.js:313
OnRejected == "logged"

\* the promise of a run started by POST /generate or the cron job rejects
RunRejected(r) ==
  /\ sink[r] = "none"
  /\ pc[r] = "done"
  /\ result[r] = "throw"
  /\ caught[r] = "none"
  /\ caught' = [caught EXCEPT ![r] = OnRejected]
  /\ UNCHANGED << store, pc, sink, locals, err, result, thrown, sent, failMark,
                  logged, hist, progress, disc, keepAlive, reply, pings, env >>

\* ---- specifications -----------------------------------------------------
RunStep(r) ==
  \/ Diagnostics(r)
  \/ Collect(r)
  \/ Deduplicate(r)
  \/ InsertRawItems(r)
  \/ Score(r)
  \/ WriteScript(r)
  \/ CreateEpisode(r)
  \/ GenerateAudio(r)
  \/ Finalize(r)
  \/ Backfill(r)
  \/ Publish(r)
  \/ HandleFailure(r)
  \/ NotifyFailed(r)

\* one run of the pipeline against a store left by earlier days
Next ==
  \/ TriggerGenerate(1)
  \/ TriggerCron(1)
  \/ TriggerStream(1)
  \/ CallWithSink(1)
  \/ RunStep(1)
  \/ ClientDisconnect(1)
  \/ StreamSettle(1)
  \/ RunRejected(1)

Spec == Init /\ [][Next]_vars

\* two runs started by the cron job (a run started by POST /generate
\* differs only in the answer to the request), interleaved at their awaits,
\* on an empty store
InitConcurrent ==
  /\ rawItems = <<>>
  /\ adapter = "sameDay"
  /\ InitRuns
  /\ NoCalls

NextConcurrent ==
  \E r \in Runs : TriggerCron(r) \/ RunStep(r)

SpecConcurrent == InitConcurrent /\ [][NextConcurrent]_vars

\* one streamed run (GET /generate/stream) with its client and its timer
NextStream ==
  \/ TriggerStream(1)
  \/ RunStep(1)
  \/ ClientDisconnect(1)
  \/ StreamSettle(1)
  \/ KeepAliveTick(1)

\* the run is async code on the event loop: each step is taken once it can
\* be, and the promise's callbacks run once it has settled; the client and
\* the timer are under no such obligation
SpecStream ==
  /\ InitConcurrent
  /\ [][NextStream]_vars
  /\ WF_vars(RunStep(1))
  /\ WF_vars(StreamSettle(1))

\* C39: in GET /generate/stream no status, complete, error or keep-alive
\* frame is written once the client has disconnected or the response has
\* been ended, and a keep-alive timer that was started is eventually
\* cleared, whether the run succeeds, fails or loses its client
StreamClosesCleanly ==
  /\ [](~late[1])
  /\ (keepAlive[1] ~> ~keepAlive[1])

\* the client left during the run, the run finished after it and its
\* callbacks have run: nothing was written for it and the timer is off
SettledAfterDisconnect ==
  /\ sink[1] = "sse"
  /\ disc[1]
  /\ reply[1] = "dropped"
  /\ events[1] # <<>>
  /\ pings[1] > 0
  /\ ~keepAlive[1]

\* ---- what a run left behind ---------------------------------------------
EpisodesOf(r) == { i \in 1..Len(episodes) : episodes[i].run = r }
PersistedBy(r) == Cardinality({ i \in 1..Len(rawItems) : rawItems[i].run = r })
Done(r) == pc[r] = "done"

Called(h, c) == \E k \in 1..Len(h) : h[k].call = c
Has(h, c, o) == \E k \in 1..Len(h) : h[k].call = c /\ h[k].out = o
Count(h, c) == Cardinality({ k \in 1..Len(h) : h[k].call = c })
Arg(h, c) == h[CHOOSE k \in 1..Len(h) : h[k].call = c].n

\* errors raised by a stage or a store call, as opposed to the sink
StageErrors == { "diagnostics", "recentRead", "insertRaw", "score", "script",
                 "createEpisode", "audio", "updateEpisode", "backfill" }

\* Episode status, RawItems, notifications and result of a finished run
Outcome(r) ==
  [result |-> result[r],
   thrown |-> thrown[r],
   status |-> IF EpisodesOf(r) = {} THEN "none"
              ELSE episodes[CHOOSE i \in EpisodesOf(r) : TRUE].status,
   persisted |-> PersistedBy(r),
   sent |-> sent[r]]

Failure(e, st, n) ==
  [result |-> "throw", thrown |-> e, status |-> st, persisted |-> n,
   sent |-> << "failed" >>]
Quiet ==
  [result |-> "null", thrown |-> "none", status |-> "none", persisted |-> 0,
   sent |-> << "skipped" >>]
Undetermined ==
  [result |-> "running", thrown |-> "none", status |-> "none", persisted |-> 0,
   sent |-> <<>>]

\* the outcome that the collaborators' answers h determine for a run whose
\* progress is observed by nobody: the reference of the sink claims
Expected(h) ==
  LET kept == Arg(h, "fetch") - Arg(h, "recent")
      selected == IF kept < maxItemsDefault THEN kept ELSE maxItemsDefault
      after(st) == IF Has(h, "failed", "ok") THEN "failed" ELSE st
  IN IF Has(h, "diag", "throw") THEN Failure("diagnostics", "none", 0)
     ELSE IF ~Called(h, "fetch") THEN Undetermined
     ELSE IF Arg(h, "fetch") = 0 THEN Quiet
     ELSE IF Has(h, "recent", "throw") THEN Failure("recentRead", "none", 0)
     ELSE IF ~Called(h, "recent") THEN Undetermined
     ELSE IF kept = 0 THEN Quiet
     ELSE IF Has(h, "insert", "fail") THEN Failure("insertRaw", "none", 0)
     ELSE IF Has(h, "score", "throw") THEN Failure("score", "none", kept)
     ELSE IF Has(h, "script", "fail") THEN Failure("script", "none", kept)
     ELSE IF Has(h, "create", "fail") THEN Failure("createEpisode", "none", kept)
     ELSE IF ~Called(h, "create") THEN Undetermined
     ELSE IF Has(h, "audio", "fail") /\ Called(h, "failed")
          THEN Failure("audio", after("pending"), kept)
     ELSE IF Has(h, "generated", "fail") /\ Called(h, "failed")
          THEN Failure("updateEpisode", after("pending"), kept)
     ELSE IF Has(h, "backfill", "throw") /\ Called(h, "failed")
          THEN Failure("backfill", after("generated"), kept)
     ELSE IF Has(h, "generated", "ok") /\ Count(h, "backfill") = selected
          THEN [result |-> "episode", thrown |-> "none", status |-> "generated",
                persisted |-> kept, sent |-> << "ready" >>]
     ELSE Undetermined

\* ---- claims --------------------------------------------------------------

\* C1: when runPipeline has completed, by returning or by throwing, the
\* Episode the run created has status generated or failed.
EpisodeEndsTerminal ==
  \A r \in Runs :
    Done(r) => \A i \in EpisodesOf(r) : episodes[i].status \in { "generated", "failed" }

\* C2: an Episode's status changes only from pending to generated or from
\* pending to failed; once written generated it is never written failed.
StatusOnlyAdvances ==
  [][\A i \in 1..Len(episodes) :
       episodes'[i].status # episodes[i].status
         => /\ episodes[i].status = "pending"
            /\ episodes'[i].status \in { "generated", "failed" }]_vars

\* C3: a run that succeeds has sent exactly the 'episode ready' notification
\* and a run that ends with an error exactly the 'pipeline failed' one.
OneOutcomeNotification ==
  \A r \in Runs :
    /\ Done(r) /\ result[r] = "episode" => sent[r] = << "ready" >>
    /\ Done(r) /\ result[r] = "throw" => sent[r] = << "failed" >>

\* C4: when a stage fails with error e after the Episode was created, the
\* run attempts the 'failed' update, sends one failure notification and
\* rejects with e; a failed 'failed' update is logged.
StageFailureHandled ==
  \A r \in Runs :
    Done(r) /\ err[r] \in StageErrors /\ episodeId[r] # NoId
      => /\ failMark[r] # "none"
         /\ sent[r] = << "failed" >>
         /\ thrown[r] = err[r]
         /\ (failMark[r] \in { "error", "throw" } => logged[r])

\* collection ran and left no item: nothing fetched, the adapter threw, or
\* dedup removed every candidate
ZeroYield(r) ==
  /\ Called(hist[r], "fetch")
  /\ \/ Arg(hist[r], "fetch") = 0
     \/ /\ Called(hist[r], "recent")
        /\ Arg(hist[r], "recent") = Arg(hist[r], "fetch")

\* C5: a run whose collection yields zero items inserts no RawItem and no
\* Episode, sends no failure notification, and ends by returning null after
\* exactly one 'skipped' notification.
EmptyCollectionSkips ==
  \A r \in Runs :
    ZeroYield(r)
      => /\ PersistedBy(r) = 0
         /\ EpisodesOf(r) = {}
         /\ pc[r] # "catch"
         /\ Done(r) => result[r] = "null" /\ sent[r] = << "skipped" >>

\* C6: as long as the Episode insert of a run has not succeeded, no Episode
\* row of that run exists and no Episode update has been attempted, in
\* particular when the run has thrown.
NoEpisodeBeforeCreate ==
  \A r \in Runs :
    ~Has(hist[r], "create", "ok")
      => /\ EpisodesOf(r) = {}
         /\ episodeId[r] = NoId
         /\ failMark[r] = "none"
         /\ ~Called(hist[r], "generated")

\* C6 witness: a too-short script made the run throw, no Episode exists
ThrewBeforeCreate ==
  \E r \in Runs :
    /\ Done(r) /\ result[r] = "throw" /\ thrown[r] = "script"
    /\ PersistedBy(r) > 0
    /\ EpisodesOf(r) = {}

\* the identifier is the one the bulk insert of this run returned
Durable(r, item) ==
  /\ item.id \in 1..Len(rawItems)
  /\ rawItems[item.id].run = r
  /\ ScoringId(item) = item.id

\* C7: the bulk insert has succeeded before scoring starts, and every item
\* handed to scoreItems, writeScript and the backfill carries the durable
\* identifier returned by that insert.
DurableIdsBeforeScoring ==
  \A r \in Runs :
    /\ pc[r] = "score" \/ Called(hist[r], "score")
         => /\ Has(hist[r], "insert", "ok")
            /\ \A k \in 1..Len(items[r]) : Durable(r, items[r][k])
    /\ pc[r] \in { "write", "backfill" } \/ Called(hist[r], "script")
         => \A k \in 1..Len(scoredItems[r]) : Durable(r, scoredItems[r][k])

\* C7 witness: the backfill loop has gone through two selected items
BackfilledTwo ==
  \E r \in Runs :
    /\ pc[r] = "backfill" /\ idx[r] = 3
    /\ Cardinality({ i \in 1..Len(rawItems) : rawItems[i].episode_id = episodeId[r] }) = 2

\* C8: the outcome of a finished run is the one its collaborators' answers
\* determine, whatever the sink is and whether or not it throws.
SinkNeverAffectsOutcome ==
  \A r \in Runs : Done(r) => Outcome(r) = Expected(hist[r])

\* C9: a streamed run ends with the outcome its collaborators' answers
\* determine, whether or not and whenever the client has disconnected.
DisconnectDoesNotCancel ==
  \A r \in Runs :
    sink[r] = "sse" /\ Done(r) => Outcome(r) = Expected(hist[r])

\* C9 witness: the client went away during the run, which still generated
\* its Episode and sent the notification
FinishedUnobserved ==
  \E r \in Runs :
    /\ sink[r] = "sse" /\ disc[r] /\ reply[r] = "dropped"
    /\ result[r] = "episode"
    /\ \E i \in EpisodesOf(r) : episodes[i].status = "generated"

run == << store, pc, sink, locals, err, result, thrown, sent, failMark, logged,
          hist, disc, keepAlive, reply, caught, events, late, pings, adapter >>

NoRun ==
  /\ rawItems = <<>>
  /\ adapter = "daily"
  /\ InitRuns

\* candidates with a title of blanks only, which `r.title || 'Untitled'`
\* lets through
DedupPool == Pool \cup { Candidate("u3", << " " >>) }

\* rows of briefing_raw_items, inside or outside the trailing 7 days
StoredPool ==
  { RawRow(1, Candidate(c[1], c[2]), rec, 0) :
      c \in { << "u1", << "A" >> >>, << "u9", << "a" >> >>, << "", << " " >> >> },
      rec \in BOOLEAN }

InitDedup ==
  /\ NoRun
  /\ search = Unused /\ scorer = Unused /\ parser = Unused
  /\ writer = Unused /\ migrate = Unused
  /\ \E its \in SeqsUpTo(DedupPool, MaxFetch) \ { <<>> } :
       \E rows \in SeqsUpTo(StoredPool, MaxRows) :
         \E rd \in StoreOutcomes :
           dedup = [phase |-> "called", items |-> its, rows |-> rows,
                    read |-> rd, out |-> <<>>]

\* const { data: recentItems } = await supabase...gte('fetched_at', ..);
\* if (recentItems && recentItems.length > 0) { ..filter.. }
ApplyDedup ==
  /\ dedup.phase = "called"
  /\ dedup' =
       IF dedup.read = "throw" THEN [dedup EXCEPT !.phase = "raised"]
       ELSE LET recentItems == IF dedup.read = "ok" THEN RecentRows(dedup.rows)
                               ELSE <<>>
            IN [dedup EXCEPT !.phase = "returned",
                             !.out = Dedupe(dedup.items, recentItems)]
  /\ UNCHANGED << run, search, scorer, parser, writer, migrate >>

SpecDedup == InitDedup /\ [][ApplyDedup]_vars

\* the RawItems ingested within the trailing window
InWindow(rows) == { x \in Range(rows) : x.recent }

SameUrl(c, x) == c.url # "" /\ c.url = x.url
SameTitle(c, x) == NormTitle(c.title) = NormTitle(x.title)

\* C11 as stated: after the dedup step a candidate is among the remaining
\* items exactly if no RawItem of the trailing window has its non-empty url
\* or its lowercase-trimmed title.
DedupExcludesRecent ==
  dedup.phase = "returned"
    => \A c \in Range(dedup.items) :
         c \in Range(dedup.out)
           <=> ~\E x \in InWindow(dedup.rows) : SameUrl(c, x) \/ SameTitle(c, x)

\* C11: when the read of the recent RawItems returned its rows, a candidate
\* is among the remaining items exactly if no RawItem of the trailing window
\* has its non-empty url or its non-empty lowercase-trimmed title.
DedupExcludesRecentRead ==
  dedup.phase = "returned" /\ dedup.read = "ok"
    => \A c \in Range(dedup.items) :
         c \in Range(dedup.out)
           <=> ~\E x \in InWindow(dedup.rows) :
                  \/ SameUrl(c, x)
                  \/ NormTitle(c.title) # <<>> /\ SameTitle(c, x)

\* C11 witness: a candidate went because its title differs from a recent
\* title only in case and blanks, another candidate stayed
DroppedByTitle ==
  /\ dedup.phase = "returned" /\ dedup.read = "ok"
  /\ \E c \in Range(dedup.items) \ Range(dedup.out) :
       \E x \in InWindow(dedup.rows) :
         ~SameUrl(c, x) /\ c.title # x.title /\ SameTitle(c, x)
  /\ dedup.out # <<>>

\* ---- source adapters on their own (search.js 16-63, rss.js 20-63) --------
\* what one query or one feed does: it throws, or it returns its items
QueryOutcomes ==
  { [ok |-> FALSE, results |-> <<>>],
    [ok |-> TRUE, results |-> <<>>],
    [ok |-> TRUE, results |-> << Candidate("u1", << "A" >>) >>],
    [ok |-> TRUE, results |-> << Candidate("u2", << "a", " " >>),
                                 Candidate("", << "b" >>) >>] }

\* the adapter's own preparation: the API key is missing (search only), or
\* the read of the active queries / sources resolves, errors or rejects
QuerySetups(kind) ==
  IF kind = "search" THEN { "noKey", "error", "throw", "ok" }
  ELSE { "error", "throw", "ok" }

\* the limit runPipeline hands to fetchSearchResults: the call at
\* pipeline.js:48 is fetchSearchResults({ provider }), whatever lite is
PipelineLimit(lite) == NoLimit

\* fetchSearchResults called with and without a limit, and called by a run
\* that a trigger started with lite: true
SearchCalls ==
  { [from |-> "direct", limit |-> lim] : lim \in { NoLimit, 1 } }
    \cup { [from |-> "lite", limit |-> PipelineLimit(TRUE)] }

InitSearch ==
  /\ NoRun
  /\ dedup = Unused /\ scorer = Unused /\ parser = Unused
  /\ writer = Unused /\ migrate = Unused
  /\ \E kind \in { "search", "rss" } :
       \E setup \in QuerySetups(kind) :
         \E qs \in IF setup = "ok" THEN SeqsUpTo(QueryOutcomes, MaxQueries)
                    ELSE { <<>> } :
           \E call \in IF kind = "search" /\ setup = "ok" THEN SearchCalls
                        ELSE { [from |-> "direct", limit |-> NoLimit] } :
             search = [phase |-> "called", kind |-> kind, setup |-> setup,
                       from |-> call.from, limit |-> call.limit,
                       queries |-> qs, active |-> <<>>, i |-> 1,
                       settled |-> {}, items |-> <<>>, collected |-> <<>>]

\* the k queries that queries.sort(() => Math.random() - 0.5).slice(0, k)
\* leaves, in the order it leaves them
Arrangements(n, k) ==
  { a \in [1..k -> 1..n] : \A x, y \in 1..k : x # y => a[x] # a[y] }

\* lines 19-46 of search.js, lines 25-46 of rss.js
SearchBegin ==
  /\ search.phase = "called"
  /\ IF search.setup = "throw"
     THEN search' = [search EXCEPT !.phase = "rejected"]
     ELSE IF search.setup # "ok" \/ search.queries = <<>>
     THEN search' = [search EXCEPT !.phase = "returned"]
     ELSE LET n == Len(search.queries)
              cap == IF search.limit # NoLimit THEN search.limit
                     ELSE maxQueriesDefault
          IN IF search.kind = "rss"
             THEN search' = [search EXCEPT !.phase = "pending",
                                           !.active = [j \in 1..n |-> j]]
             ELSE \E a \in IF cap < n THEN Arrangements(n, cap)
                            ELSE { [j \in 1..n |-> j] } :
                    search' = [search EXCEPT !.phase = "loop", !.active = a]
  /\ UNCHANGED << run, dedup, scorer, parser, writer, migrate >>

\* the catch left out: the query's error leaves fetchSearchResults
AfterQueryErrorAbort(st) == [st EXCEPT !.phase = "rejected"]

\* catch (err) { logger.error(..) } inside the loop: on to the next query
AfterQueryError(st) == [st EXCEPT !.i = @ + 1]

\* search.js 50-59: one iteration of the sequential loop
SearchQuery ==
  /\ search.phase = "loop"
  /\ search.i <= Len(search.active)
  /\ LET q == search.queries[search.active[search.i]]
     IN search' = IF q.ok
                  THEN [search EXCEPT !.items = @ \o q.results, !.i = @ + 1]
                  ELSE AfterQueryError(search)
  /\ UNCHANGED << run, dedup, scorer, parser, writer, migrate >>

\* search.js 61-62
SearchEnd ==
  /\ search.phase = "loop"
  /\ search.i > Len(search.active)
  /\ search' = [search EXCEPT !.phase = "returned"]
  /\ UNCHANGED << run, dedup, scorer, parser, writer, migrate >>

\* rss.js 44-46: the feeds are fetched in parallel and settle in any order
FeedSettles ==
  /\ search.phase = "pending"
  /\ \E j \in 1..Len(search.queries) \ search.settled :
       search' = [search EXCEPT !.settled = @ \cup { j }]
  /\ UNCHANGED << run, dedup, scorer, parser, writer, migrate >>

\* rss.js 48-59: the loop over the settled results, in source order
RECURSIVE Fulfilled(_)
Fulfilled(results) ==
  IF results = <<>> THEN <<>>
  ELSE (IF Head(results).ok THEN Head(results).results ELSE <<>>)
         \o Fulfilled(Tail(results))

\* rss.js 48-62: Promise.allSettled has resolved
FeedsMerge ==
  /\ search.phase = "pending"
  /\ search.settled = 1..Len(search.queries)
  /\ search' = [search EXCEPT !.phase = "returned",
                              !.items = Fulfilled(search.queries)]
  /\ UNCHANGED << run, dedup, scorer, parser, writer, migrate >>

\* pipeline.js 45-53: items.push(...results), or the catch that only logs
CollectInto ==
  /\ search.kind = "search"
  /\ search.phase \in { "returned", "rejected" }
  /\ search' = [search EXCEPT !.phase = "collected",
                              !.collected = IF search.phase = "returned"
                                            THEN search.items ELSE <<>>]
  /\ UNCHANGED << run, dedup, scorer, parser, writer, migrate >>

NextSearch ==
  \/ SearchBegin
  \/ SearchQuery
  \/ SearchEnd
  \/ FeedSettles
  \/ FeedsMerge
  \/ CollectInto

SpecSearch == InitSearch /\ [][NextSearch]_vars

\* the items of the queries that answered, in the order the queries ran
RECURSIVE Answered(_, _)
Answered(queries, order) ==
  IF order = <<>> THEN <<>>
  ELSE LET q == queries[Head(order)]
       IN (IF q.ok THEN q.results ELSE <<>>) \o Answered(queries, Tail(order))

\* C12: a failing query or feed contributes nothing and stops neither the
\* other queries or feeds nor the collection; a failure of the whole search
\* adapter leaves the orchestrator with zero items.
AdapterFailuresIsolated ==
  /\ search.phase = "rejected" => search.setup = "throw"
  /\ search.phase = "loop"
       => search.items = Answered(search.queries,
                                  SubSeq(search.active, 1, search.i - 1))
  /\ search.phase \in { "returned", "collected" } /\ search.setup # "throw"
       => search.items = Answered(search.queries, search.active)
  /\ search.phase = "collected"
       => search.collected = IF search.setup = "throw" THEN <<>>
                             ELSE Answered(search.queries, search.active)

\* C12 witness: the second of three queries failed, the items of the first
\* and the third reached the orchestrator
CollectedAroundFailure ==
  /\ search.phase = "collected" /\ Len(search.active) = 3
  /\ ~search.queries[2].ok
  /\ search.queries[1].results # <<>> /\ search.queries[3].results # <<>>
  /\ search.collected = search.queries[1].results \o search.queries[3].results

\* ---- scoreItems on its own (scorer.js 29-128) ----------------------------
\* persisted items 1..n in their input order
ScorerItems(n) == [i \in 1..n |-> [Candidate("u1", << "A" >>) EXCEPT !.id = i]]

\* { minScore, maxItems, minItems }: the defaults, or options of the caller
\* with minItems <= maxItems
ScorerOptions ==
  { [minScore |-> minScoreDefault, minItems |-> minItemsDefault,
     maxItems |-> maxItemsDefault] }
    \cup { [minScore |-> minScoreDefault, minItems |-> o[1], maxItems |-> o[2]] :
             o \in { << 1, 2 >>, << 2, 2 >>, << 2, 3 >> } }

NoResponse == [kind |-> "none", scores |-> <<>>]

InitScorer ==
  /\ NoRun
  /\ dedup = Unused /\ search = Unused /\ parser = Unused
  /\ writer = Unused /\ migrate = Unused
  /\ \E n \in 0..MaxScored :
       \E o \in ScorerOptions :
         scorer = [phase |-> "called", items |-> ScorerItems(n), opts |-> o,
                   digest |-> "none", withDigest |-> FALSE, requests |-> 0,
                   resp |-> NoResponse, out |-> <<>>, cause |-> "none"]

\* lines 29-46
ScorerBegin ==
  /\ scorer.phase = "called"
  /\ scorer' = [scorer EXCEPT !.phase = IF scorer.items = <<>> THEN "returned"
                                        ELSE "digest"]
  /\ UNCHANGED << run, dedup, search, parser, writer, migrate >>

\* the try left out: the error of the read leaves scoreItems
AfterDigestErrorRaise(st) == [st EXCEPT !.phase = "raised", !.cause = "digest"]

\* catch (err) { logger.debug(..) } at line 69: recentTopicsBlock stays ''
AfterDigestError(st) == [st EXCEPT !.phase = "request"]

\* lines 48-71: the read of the last 5 published Episodes
\*   "episodes": rows, the digest is built     "empty": no row
\*   "error": resolves with { error }, data is null
\*   "throw": the read rejects   "malformed": a row whose sections is no array
ReadRecentEpisodes ==
  /\ scorer.phase = "digest"
  /\ \E rd \in { "episodes", "empty", "error", "throw", "malformed" } :
       LET st == [scorer EXCEPT !.digest = rd]
       IN scorer' = IF rd \in { "throw", "malformed" } THEN AfterDigestError(st)
                    ELSE [st EXCEPT !.phase = "request",
                                    !.withDigest = (rd = "episodes")]
  /\ UNCHANGED << run, dedup, search, parser, writer, migrate >>

\* what the model may answer about one item: no entry, an entry with a
\* score, or an entry without a numeric score
EntryChoices == { NoScore, 3, 6, 9, NotANumber }

ScorerResponse(its, choice) ==
  [kind |-> "scores",
   scores |-> SelectSeq([i \in 1..Len(its) |->
                           [id |-> ScoringId(its[i]), score |-> choice[i]]],
                        LAMBDA e : e.score # NoScore)]

\* "nulls": a JSON array with a null element
ScorerResponses(its) ==
  { [kind |-> "garbage", scores |-> <<>>],
    [kind |-> "nulls", scores |-> <<>>],
    [kind |-> "scalars", scores |-> << [id |-> NoId, score |-> NotANumber] >>] }
    \cup { ScorerResponse(its, ch) : ch \in [1..Len(its) -> EntryChoices] }

\* for (const s of scores) scoreMap.set(s.id, ..) at line 96-98, outside the
\* try: s.id of null is a TypeError
LookupRaises(resp) == resp.kind = "nulls"

\* lines 73-127: the single scoring request, the parse and the selection
RequestScores ==
  /\ scorer.phase = "request"
  /\ \/ scorer' = [scorer EXCEPT !.phase = "raised", !.cause = "request",
                                  !.requests = @ + 1]
     \/ \E resp \in ScorerResponses(scorer.items) :
          scorer' =
            IF LookupRaises(resp)
            THEN [scorer EXCEPT !.phase = "raised", !.cause = "response",
                                !.requests = @ + 1, !.resp = resp]
            ELSE [scorer EXCEPT !.phase = "returned", !.requests = @ + 1,
                                !.resp = resp,
                                !.out = ScoreItems(scorer.items, resp,
                                                   scorer.opts.minScore,
                                                   scorer.opts.minItems,
                                                   scorer.opts.maxItems)]
  /\ UNCHANGED << run, dedup, search, parser, writer, migrate >>

NextScorer ==
  \/ ScorerBegin
  \/ ReadRecentEpisodes
  \/ RequestScores

SpecScorer == InitScorer /\ [][NextScorer]_vars

\* C13: with minItems <= maxItems, an input of at least minItems items gives
\* an output of at least minItems and at most maxItems items, and a shorter
\* input gives an output of the input's size, whatever the scoring response.
SelectionWithinBounds ==
  scorer.phase = "returned"
    => LET n == Len(scorer.items)
           m == Len(scorer.out)
       IN IF n >= scorer.opts.minItems
          THEN scorer.opts.minItems <= m /\ m <= scorer.opts.maxItems
          ELSE m = n

\* C13 witness: one of three items reached minScore, the selection was
\* filled up to minItems = 2
RelaxedToMinItems ==
  /\ scorer.phase = "returned" /\ scorer.resp.kind = "scores"
  /\ Len(scorer.items) = 3 /\ scorer.opts.minItems = 2
  /\ Len(scorer.out) = 2
  /\ scorer.out[1].relevance_score >= scorer.opts.minScore
  /\ scorer.out[2].relevance_score \in 0..(scorer.opts.minScore - 1)

\* the response has an entry for the item
Scored(resp, item) ==
  \E k \in 1..Len(resp.scores) : resp.scores[k].id = ScoringId(item)

\* C14: the output of scoreItems is in descending order of relevance_score,
\* items of equal score are in their input order, and an item without an
\* entry in the scoring response has score 0.
SelectionSortedStable ==
  scorer.phase = "returned"
    => /\ \A k \in 1..(Len(scorer.out) - 1) :
            LET a == scorer.out[k]
                b == scorer.out[k + 1]
            IN /\ a.relevance_score # NotANumber
               /\ b.relevance_score # NotANumber
               /\ \/ a.relevance_score > b.relevance_score
                  \/ a.relevance_score = b.relevance_score /\ a.id < b.id
       /\ \A k \in 1..Len(scorer.out) :
            scorer.resp.kind \in { "scores", "scalars" }
              /\ ~Scored(scorer.resp, scorer.out[k])
              => scorer.out[k].relevance_score = 0

\* return items.slice(0, maxItems).map(item => ({ ...item, relevance_score: 5 }))
Fallback(its, maxItems) ==
  [i \in 1..(IF Len(its) < maxItems THEN Len(its) ELSE maxItems) |->
     [url |-> its[i].url, title |-> its[i].title, id |-> its[i].id,
      tempId |-> its[i].tempId, relevance_score |-> FallbackScore]]

\* C15: for a scoring response that is no JSON array, is invalid JSON or is
\* an array of elements that are not objects, scoreItems raises nothing and
\* returns the first maxItems items in input order, each with score 5.
UnparsableFallsBack ==
  scorer.resp.kind \in { "garbage", "nulls", "scalars" }
    => /\ scorer.phase = "returned"
       /\ scorer.out = Fallback(scorer.items, scorer.opts.maxItems)

\* C16: when the read of the recent Episodes throws or returns an error,
\* scoreItems does not fail for it: it sends its one scoring request without
\* the digest and returns a selection of the input items.
DigestFailureTolerated ==
  scorer.digest \in { "error", "throw", "malformed" }
    => /\ scorer.cause # "digest"
       /\ ~scorer.withDigest
       /\ scorer.requests = IF scorer.phase \in { "returned", "raised" } THEN 1 ELSE 0
       /\ scorer.phase = "returned"
            => /\ scorer.out # <<>>
               /\ \A k \in 1..Len(scorer.out) :
                    scorer.out[k].id \in 1..Len(scorer.items)

\* C16 witness: the read of the Episodes threw, the request was sent and
\* a selection came back
ScoredWithoutDigest ==
  /\ scorer.digest = "throw" /\ scorer.phase = "returned"
  /\ scorer.requests = 1 /\ ~scorer.withDigest
  /\ scorer.resp.kind = "scores" /\ Len(scorer.out) = 2

\* ---- parseSections on its own (scriptWriter.js 85-175) -------------------
\* A script is the sequence of its non-empty paragraphs (line 96), each
\* paragraph the number paragraph.split(/\s+/).length of its words.
WordCounts == { 1, 2 }

RECURSIVE Sum(_, _)
Sum(paragraphs, k) == IF k = 0 THEN 0 ELSE Sum(paragraphs, k - 1) + paragraphs[k]

Max(a, b) == IF a > b THEN a ELSE b
Min(a, b) == IF a < b THEN a ELSE b

\* Math.round(wordIndex / wordsPerSecond) with wordsPerSecond = 150 / 60
Timestamp(wordIndex) == (4 * wordIndex + 5) \div 10

\* a section; para is the paragraph the section was made from (paragraphs
\* count from 1 here, from 0 in the source)
Section(label, para, wordIndex) ==
  [label |-> label, para |-> para, word_index |-> wordIndex,
   estimated_timestamp_seconds |-> Timestamp(wordIndex)]

\* lines 121-128
StoryLabel(storyNum) ==
  IF storyNum <= 3 THEN << "story_1", "story_2", "story_3" >>[storyNum]
  ELSE "deeper_thread"

\* the closer only from three paragraphs on
HasCloserFromThree(n) == n > 2

\* if (paragraphs.length > 1) at line 163
HasCloser(n) == n > 1

ParseSections(paragraphs) ==
  LET n == Len(paragraphs)
      \* const mainEnd = Math.max(mainStart + 1, paragraphs.length - 2)
      mainEnd == Max(2, n - 2)
      \* for (i = 1; i < mainEnd && i < n; i++): the source's i is j - 1
      last == Min(mainEnd, n)
      main == [k \in 1..(last - 1) |->
                 Section(StoryLabel(k), k + 1, Sum(paragraphs, k))]
      afterMain == Sum(paragraphs, last)
      hasDeeper == \E k \in 1..Len(main) : main[k].label = "deeper_thread"
      \* lines 145-160: deeperIdx = mainEnd
      deeper == IF ~hasDeeper /\ n > 3 /\ mainEnd < n
                THEN << Section("deeper_thread", mainEnd + 1, afterMain) >>
                ELSE <<>>
      afterDeeper == IF deeper = <<>> THEN afterMain
                     ELSE afterMain + paragraphs[mainEnd + 1]
      closer == IF HasCloser(n) THEN << Section("closer", n, afterDeeper) >>
                ELSE <<>>
  IN IF n = 0 THEN <<>>
     ELSE << Section("opener", 1, 0) >> \o main \o deeper \o closer

InitParser ==
  /\ NoRun
  /\ dedup = Unused /\ search = Unused /\ scorer = Unused
  /\ writer = Unused /\ migrate = Unused
  /\ \E ps \in SeqsUpTo(WordCounts, MaxParagraphs) :
       parser = [phase |-> "called", paragraphs |-> ps, sections |-> <<>>]

\* sections: parseSections(script) at scriptWriter.js:66
Parse ==
  /\ parser.phase = "called"
  /\ parser' = [parser EXCEPT !.phase = "returned",
                              !.sections = ParseSections(parser.paragraphs)]
  /\ UNCHANGED << run, dedup, search, scorer, writer, migrate >>

SpecParser == InitParser /\ [][Parse]_vars

Labels(sections) == [k \in 1..Len(sections) |-> sections[k].label]

\* C17: for a script of n >= 2 paragraphs the first paragraph is the opener,
\* the last the closer, and of the paragraphs between them the first three
\* are story_1, story_2, story_3 in order; four paragraphs give opener,
\* story_1, story_2, closer.
PositionalLabels ==
  parser.phase = "returned" /\ Len(parser.paragraphs) >= 2
    => LET n == Len(parser.paragraphs)
           secs == parser.sections
       IN /\ secs[1].label = "opener" /\ secs[1].para = 1
          /\ secs[Len(secs)].label = "closer" /\ secs[Len(secs)].para = n
          /\ \A k \in 1..3 :
               /\ k + 1 < n => \E x \in 1..Len(secs) :
                                  secs[x].para = k + 1 /\ secs[x].label = StoryLabel(k)
               /\ \A x \in 1..Len(secs) :
                    secs[x].label = StoryLabel(k) => secs[x].para = k + 1 /\ k + 1 < n
          /\ n = 4 => Labels(secs) = << "opener", "story_1", "story_2", "closer" >>

\* C18: the sections of a script hold at most one deeper_thread, whatever
\* the number of paragraphs.
OneDeeperThread ==
  parser.phase = "returned"
    => Cardinality({ k \in 1..Len(parser.sections) :
                       parser.sections[k].label = "deeper_thread" }) <= 1

\* C19: the word_index of every section is the number of words of the
\* paragraphs before the paragraph the section labels.
WordIndexIsOffset ==
  parser.phase = "returned"
    => \A k \in 1..Len(parser.sections) :
         parser.sections[k].word_index
           = Sum(parser.paragraphs, parser.sections[k].para - 1)

\* C20: the sections of a script with at least one paragraph are in
\* non-decreasing word_index order, the first is the opener with word_index
\* 0, and with more than one paragraph the last is the closer.
SectionsOrdered ==
  parser.phase = "returned" /\ Len(parser.paragraphs) >= 1
    => LET secs == parser.sections
       IN /\ secs # <<>>
          /\ secs[1].label = "opener" /\ secs[1].word_index = 0
          /\ \A k \in 1..(Len(secs) - 1) : secs[k].word_index <= secs[k + 1].word_index
          /\ Len(parser.paragraphs) > 1 => secs[Len(secs)].label = "closer"

\* C20 witness: a script of six paragraphs gave opener, three stories, the
\* deeper thread and the closer, at growing word_index
ParsedSixParagraphs ==
  /\ parser.phase = "returned" /\ Len(parser.paragraphs) = 6
  /\ Labels(parser.sections) = << "opener", "story_1", "story_2", "story_3",
                                  "deeper_thread", "closer" >>
  /\ parser.sections[6].word_index > parser.sections[5].word_index

\* ---- writeScript on its own (scriptWriter.js 30-79, 180-193) -------------
\* A script is a sequence of pieces of text: the literal "[source:", a
\* closing bracket, a blank, a paragraph break "\n\n" and a word, which
\* stands for WordLen letters.
Pieces == { "[source:", "]", " ", "\n\n", "word" }
WordLen == 100
MaxScript == 6

\* String.prototype.length
Length(text) ==
  LET len(p) == CASE p = "[source:" -> 8
                  [] p = "\n\n" -> 2
                  [] p = "word" -> WordLen
                  [] OTHER -> 1
      sum[k \in 0..Len(text)] == IF k = 0 THEN 0 ELSE sum[k - 1] + len(text[k])
  IN sum[Len(text)]

\* \s
IsSpace(p) == p \in { " ", "\n\n" }

\* where the match of /\[source:\s*[^\]]+\]/ that starts at i ends, 0 if
\* none starts there: the literal, at least one character that is not a
\* closing bracket, and the first closing bracket after them
MatchEnd(text, i) ==
  IF /\ text[i] = "[source:"
     /\ i + 1 <= Len(text)
     /\ text[i + 1] # "]"
     /\ \E j \in (i + 2)..Len(text) : text[j] = "]"
  THEN CHOOSE j \in (i + 2)..Len(text) :
         text[j] = "]" /\ \A k \in (i + 2)..(j - 1) : text[k] # "]"
  ELSE 0

\* script.replace(/\[source:\s*[^\]]+\]/g, ''): one pass, left to right
RECURSIVE StripFrom(_, _)
StripFrom(text, i) ==
  IF i > Len(text) THEN <<>>
  ELSE IF MatchEnd(text, i) # 0 THEN StripFrom(text, MatchEnd(text, i) + 1)
  ELSE << text[i] >> \o StripFrom(text, i + 1)

StripMarkers(text) == StripFrom(text, 1)

\* .replace(/\s{2,}/g, ' '): a run of two or more white-space characters
\* becomes one blank; a paragraph break is two of them
RECURSIVE CollapseFrom(_, _)
CollapseFrom(text, i) ==
  IF i > Len(text) THEN <<>>
  ELSE IF IsSpace(text[i])
  THEN LET end == CHOOSE j \in i..Len(text) :
                    /\ \A k \in i..j : IsSpace(text[k])
                    /\ (j = Len(text) \/ ~IsSpace(text[j + 1]))
       IN << " " >>
          \o CollapseFrom(text, end + 1)
  ELSE << text[i] >> \o CollapseFrom(text, i + 1)

CollapseSpaces(text) == CollapseFrom(text, 1)

\* String.prototype.trim
RECURSIVE TrimText(_)
TrimText(text) ==
  IF text = <<>> THEN <<>>
  ELSE IF IsSpace(Head(text)) THEN TrimText(Tail(text))
  ELSE IF IsSpace(text[Len(text)]) THEN TrimText(SubSeq(text, 1, Len(text) - 1))
  ELSE text

\* line 61
CleanScript(script) == TrimText(CollapseSpaces(StripMarkers(script)))

\* text.split(/\s+/).length: one more than the runs of white space
WordCount(text) ==
  1 + Cardinality({ i \in 1..Len(text) :
                      IsSpace(text[i]) /\ (i = 1 \/ ~IsSpace(text[i - 1])) })

\* script.split(/\n\n+/)
RECURSIVE SplitParagraphs(_, _)
SplitParagraphs(text, cur) ==
  IF text = <<>> THEN << cur >>
  ELSE IF Head(text) = "\n\n"
  THEN IF Len(text) > 1 /\ text[2] = "\n\n"
       THEN SplitParagraphs(Tail(text), cur)
       ELSE << cur >> \o SplitParagraphs(Tail(text), <<>>)
  ELSE SplitParagraphs(Tail(text), Append(cur, Head(text)))

\* .filter(p => p.trim().length > 0), each paragraph by its word count
Paragraphs(script) ==
  LET all == SplitParagraphs(script, <<>>)
      kept == SelectSeq(all, LAMBDA p : TrimText(p) # <<>>)
  IN [k \in 1..Len(kept) |-> WordCount(kept[k])]

\* lines 64-65: the identifiers of the markers, trimmed, each once
RECURSIVE MarkerIds(_, _)
MarkerIds(text, i) ==
  IF i > Len(text) THEN <<>>
  ELSE IF MatchEnd(text, i) # 0
  THEN LET id == TrimText(SubSeq(text, i + 1, MatchEnd(text, i) - 1))
           rest == MarkerIds(text, MatchEnd(text, i) + 1)
       IN << id >> \o SelectSeq(rest, LAMBDA x : x # id)
  ELSE MarkerIds(text, i + 1)

\* what generateText resolves with for the summary, or that it rejects
SummaryOutcomes == { "text", "empty", "undefined", "throw" }

FallbackSummary == "Daily intelligence briefing on agentic commerce and marketing disruption."

\* generateSummary, lines 180-193: text.trim() inside the try; it raises
\* on undefined, and gives "" for a reply without text
GenerateSummary(out) ==
  CASE out = "text" -> "summary"
    [] out = "empty" -> ""
    [] OTHER -> FallbackSummary

\* tts.js 36-38: Math.round((wordCount / 150) * 60)
EstimatedDuration(cleanScript) == Timestamp(WordCount(cleanScript))

InitWriter ==
  /\ NoRun
  /\ dedup = Unused /\ search = Unused /\ scorer = Unused /\ parser = Unused
  /\ migrate = Unused
  /\ \E sc \in SeqsUpTo(Pieces, MaxScript) :
       writer = [phase |-> "called", script |-> sc, summaryReply |-> "none",
                 out |-> "none"]

\* writeScript, lines 49-78
WriteScriptCall ==
  /\ writer.phase = "called"
  /\ \E reply0 \in SummaryOutcomes :
       LET script == writer.script
       IN IF Length(script) < 200
          THEN writer' = [writer EXCEPT !.phase = "threw"]
          ELSE writer' =
                 [writer EXCEPT
                    !.phase = "returned",
                    !.summaryReply = reply0,
                    !.out = [script |-> script,
                             clean_script |-> CleanScript(script),
                             sections |-> ParseSections(Paragraphs(script)),
                             source_item_ids |-> MarkerIds(script, 1),
                             summary |-> GenerateSummary(reply0)]]
  /\ UNCHANGED << run, dedup, search, scorer, parser, migrate >>

\* generateAudio up to the return, tts.js 16-82, on the written script
AudioCall ==
  /\ writer.phase = "returned"
  /\ \E out \in { "ok", "throw" } :
       IF Length(writer.out.clean_script) < 100 \/ out = "throw"
       THEN writer' = [writer EXCEPT !.phase = "audioThrew"]
       ELSE writer' = [writer EXCEPT !.phase = "spoken"]
  /\ UNCHANGED << run, dedup, search, scorer, parser, migrate >>

SpecWriter == InitWriter /\ [][WriteScriptCall \/ AudioCall]_vars

\* C21: clean_script holds no [source: ..] marker and no "[source:" at all,
\* whatever the markers of the script looked like (adjacent, nested, with
\* an empty identifier).
CleanScriptHasNoMarker ==
  writer.phase \in { "returned", "spoken", "audioThrew" } =>
    \A i \in 1..Len(writer.out.clean_script) :
      writer.out.clean_script[i] # "[source:"

\* C22: when the summary request fails (it rejects, or its reply carries
\* no text) and the script was generated, writeScript returns its artifacts
\* with the fixed fallback sentence as the summary.
SummaryFailureFallsBack ==
  (writer.phase # "called" /\ writer.phase # "threw"
     /\ writer.summaryReply # "text")
    => writer.out.summary = FallbackSummary

\* C27: after a successful run no section starts beyond the narration:
\* word_index is at most the word count of clean_script, the timestamp is
\* round(word_index / 2.5), and no timestamp exceeds the audio duration
\* round(wordCount(clean_script) / 150 * 60).
SectionsWithinAudio ==
  writer.phase = "spoken" =>
    \A k \in 1..Len(writer.out.sections) :
      LET sec == writer.out.sections[k]
      IN /\ sec.word_index <= WordCount(writer.out.clean_script)
         /\ sec.estimated_timestamp_seconds = Timestamp(sec.word_index)
         /\ sec.estimated_timestamp_seconds
              <= EstimatedDuration(writer.out.clean_script)

\* ---- the run after the script (pipeline.js 166-282, index.js 279-305) ---
\* C23: a per-item update of step 10 that fails, with an error result or
\* an exception, does not stop the loop or the run: every selected item is
\* still attempted and 'episode ready' is still sent.
BackfillFailuresTolerated ==
  (/\ Done(1)
   /\ ~SinkThrows(1)
   /\ \E k \in 1..Len(hist[1]) :
        hist[1][k].call = "backfill" /\ hist[1][k].out # "ok")
    => /\ Count(hist[1], "backfill") = Len(scoredItems[1])
       /\ result[1] = "episode"
       /\ sent[1] = << "ready" >>

\* C24: a pending Episode has no audio and carries the script artifacts; a
\* generated Episode has its audio_url and audio_duration_seconds set.
EpisodeFieldsByStatus ==
  \A i \in 1..Len(episodes) :
    /\ episodes[i].status = "pending" =>
         /\ ~episodes[i].audio
         /\ episodes[i].clean_script # NoScript.clean
         /\ episodes[i].summary # NoScript.summary
    /\ episodes[i].status = "generated" => episodes[i].audio

GeneratedWithAudio ==
  /\ pc[1] = "backfill"
  /\ episodeId[1] # NoId
  /\ episodes[episodeId[1]].status = "generated"
  /\ episodes[episodeId[1]].audio

\* C25: no stage is invoked twice in a run, and after a fatal error the
\* cleanup, the failed-status update of the created Episode and the failure
\* notification, happens exactly once before the error is raised again.
NoRetryCleanupOnce ==
  /\ \A c \in { "insert", "score", "script", "create", "audio", "generated",
               "failed" } : Count(hist[1], c) <= 1
  /\ (Done(1) /\ result[1] = "throw") =>
       /\ Cardinality({ k \in 1..Len(sent[1]) : sent[1][k] = "failed" }) = 1
       /\ episodeId[1] # NoId => Count(hist[1], "failed") = 1

\* C26: POST /generate answers 202 'started' in the turn that starts the
\* run; whatever the run does later, the answer stays and the rejection of
\* a failed run is handled.
ManualTriggerDetached ==
  [][ /\ (pc[1] = "idle" /\ pc'[1] # "idle" /\ reply'[1] # "none")
        => (reply'[1] = "started" /\ pc'[1] = "diag")
      /\ reply[1] = "started" =>
           (reply'[1] = "started" /\ caught'[1] # "unhandled") ]_vars

FailedAfterStarted ==
  /\ reply[1] = "started"
  /\ Done(1)
  /\ result[1] = "throw"
  /\ caught[1] = "logged"

\* ---- the migration runner (lib/migrate.js) -------------------------------
\* Migration files are named by their number; the server is started up to
\* MaxStartups times against the same database.
MaxMigrations == 3
MaxStartups == 3
Migrations == 1..MaxMigrations

\* fs.readdirSync: the files in whatever order the directory gives them
Listings ==
  { l \in [1..MaxMigrations -> Migrations] :
      \A a, b \in 1..MaxMigrations : a # b => l[a] # l[b] }

\* .sort() at line 102: ascending by name
RECURSIVE SortNames(_)
SortNames(names) ==
  IF names = <<>> THEN <<>>
  ELSE LET least == CHOOSE k \in 1..Len(names) :
                      \A j \in 1..Len(names) : names[k] <= names[j]
       IN << names[least] >>
          \o SortNames([j \in 1..(Len(names) - 1) |->
                          IF j < least THEN names[j] ELSE names[j + 1]])

\* files.filter(f => !executed.includes(f)) at line 104
Pending(files, executed) == SelectSeq(files, LAMBDA f : f \notin executed)

InitMigrate ==
  /\ NoRun
  /\ dedup = Unused /\ search = Unused /\ scorer = Unused /\ parser = Unused
  /\ writer = Unused
  /\ \E l \in Listings :
       migrate = [phase |-> "down", startups |-> 0, listing |-> l,
                  recorded |-> {}, applied |-> {}, again |-> {},
                  pending |-> <<>>, i |-> 1, started |-> <<>>, failed |-> 0,
                  rejected |-> FALSE]

\* runMigrations up to the loop, lines 82-111: the credentials check,
\* ensureMigrationsTable, getExecutedMigrations (any failure of the read
\* gives []), the listing and the pending files
Startup ==
  /\ migrate.phase = "down"
  /\ migrate.startups < MaxStartups
  /\ \E configured \in BOOLEAN, ensure \in { "ok", "throw" },
        read \in { "rows", "throw" } :
       LET executed == IF read = "rows" THEN migrate.recorded ELSE {}
           pending == Pending(SortNames(migrate.listing), executed)
           begun == [migrate EXCEPT !.startups = @ + 1, !.started = <<>>,
                                    !.failed = 0, !.i = 1, !.pending = <<>>]
       IN migrate' =
            IF ~configured \/ ensure = "throw" \/ pending = <<>>
            THEN begun
            ELSE [begun EXCEPT !.phase = "up", !.pending = pending]
  /\ UNCHANGED << run, dedup, search, scorer, parser, writer >>

\* the loop goes on with the next file
AfterMigrationErrorContinue(st) ==
  IF st.i = Len(st.pending)
  THEN [st EXCEPT !.phase = "down", !.failed = st.pending[st.i]]
  ELSE [st EXCEPT !.i = @ + 1, !.failed = st.pending[st.i]]

\* lines 121-131: throw err leaves the loop for the outer catch, which
\* logs and returns
AfterMigrationError(st) ==
  [st EXCEPT !.phase = "down", !.failed = st.pending[st.i],
             !.rejected = FALSE]

\* one iteration of the loop, lines 113-125: the file's SQL, then the
\* INSERT INTO _migrations, which the primary key refuses for a known name
RunMigration ==
  /\ migrate.phase = "up"
  /\ \E sql \in { "ok", "throw" }, ins \in { "ok", "throw" } :
       LET f == migrate.pending[migrate.i]
           insert == IF f \in migrate.recorded THEN "throw" ELSE ins
           ok == sql = "ok" /\ insert = "ok"
           ran == [migrate EXCEPT
                     !.started = Append(@, f),
                     !.again = IF f \in migrate.applied THEN @ \cup { f } ELSE @,
                     !.applied = IF sql = "ok" THEN @ \cup { f } ELSE @,
                     !.recorded = IF ok THEN @ \cup { f } ELSE @]
       IN migrate' =
            IF ~ok THEN AfterMigrationError(ran)
            ELSE IF migrate.i = Len(migrate.pending)
            THEN [ran EXCEPT !.phase = "down"]
            ELSE [ran EXCEPT !.i = @ + 1]
  /\ UNCHANGED << run, dedup, search, scorer, parser, writer >>

SpecMigrate == InitMigrate /\ [][Startup \/ RunMigration]_vars

\* C28: over any sequence of startups, failures of the SQL, of the read of
\* the tracking table or of the tracking insert included, no migration's
\* SQL is executed again once it has executed successfully.
EachMigrationRunsOnce ==
  migrate.phase # "unused" => migrate.again = {}

\* C29: within one startup the pending migrations are started in ascending
\* order of their names; when one fails none after it is started, the ones
\* before it are recorded, and runMigrations does not reject.
MigrationsInOrder ==
  migrate.phase # "unused" =>
    LET st == migrate.started
    IN /\ \A a, b \in 1..Len(st) : a < b => st[a] < st[b]
       /\ migrate.failed # 0 =>
            /\ st # <<>>
            /\ st[Len(st)] = migrate.failed
            /\ \A k \in 1..(Len(st) - 1) : st[k] \in migrate.recorded
       /\ ~migrate.rejected

FailedAfterApplying ==
  /\ migrate.phase = "down"
  /\ Len(migrate.started) = 2
  /\ migrate.failed = migrate.started[2]
  /\ migrate.started[1] \in migrate.recorded

\* ---- the query budget of a run (index.js 291-301, search.js 40-46) ------
\* C30: a run started with lite: true executes at most one web search
\* query, and no call executes more than maxQueries = 6 of them.
LiteRunsOneQuery ==
  search.phase # "unused" =>
    /\ search.from = "lite" => Len(search.active) <= 1
    /\ Len(search.active) <= maxQueriesDefault

\* ---- selection and the dedup window across runs --------------------------
\* C31: with minItems >= 1 and maxItems >= 1, scoreItems returns a
\* non-empty selection for every non-empty input and every scoring
\* response.
ScoringSelectsSomething ==
  (/\ scorer.phase \in { "returned", "raised" }
   /\ scorer.resp # NoResponse
   /\ scorer.items # <<>>
   /\ scorer.opts.minItems >= 1
   /\ scorer.opts.maxItems >= 1)
    => (scorer.phase = "returned" /\ scorer.out # <<>>)

\* every candidate of run q is among the rows that run r persisted
CollectedAgain(q, r) ==
  \A k \in 1..Len(items[q]) :
    \E i \in 1..Len(rawItems) :
      /\ rawItems[i].run = r
      /\ rawItems[i].recent
      /\ rawItems[i].url = items[q][k].url
      /\ rawItems[i].title = items[q][k].title

\* run q passes its recency dedup after run r persisted its items and failed
DedupAfterFailedRun(q, r) ==
  /\ pc[q] = "dedupe"
  /\ pc'[q] # "dedupe"
  /\ Done(r)
  /\ result[r] = "throw"
  /\ PersistedBy(r) > 0
  /\ CollectedAgain(q, r)

SkippedWithoutEpisode(q) ==
  /\ pc'[q] = "done"
  /\ result'[q] = "null"
  /\ EpisodesOf(q) = {}

\* C32 as stated: a run that collects exactly the candidates a failed run
\* persisted within the window has all of them removed by dedup and ends
\* skipped, with no Episode.
FailedRunItemsStayInWindow ==
  [][\A q \in Runs : \A r \in Runs \ { q } :
       DedupAfterFailedRun(q, r) => SkippedWithoutEpisode(q)]_vars

\* C32: the same, when the read of the recent RawItems returns its rows and
\* every candidate has a url or a title that is not blank.
FailedRunItemsStayInWindowRead ==
  [][\A q \in Runs : \A r \in Runs \ { q } :
       (/\ DedupAfterFailedRun(q, r)
        /\ hist'[q][Len(hist'[q])].out = "ok"
        /\ \A k \in 1..Len(items[q]) :
             items[q][k].url # "" \/ NormTitle(items[q][k].title) # <<>>)
         => SkippedWithoutEpisode(q)]_vars

SkippedAfterFailedRun ==
  /\ Done(1) /\ result[1] = "throw" /\ PersistedBy(1) > 0
  /\ Done(2) /\ result[2] = "null"
  /\ Has(hist[2], "recent", "ok")
  /\ Arg(hist[2], "recent") > 0

\* C33: no two RawItems ingested within the same 7-day window share the
\* same non-empty url.
UrlsUniqueInWindow ==
  \A i, j \in 1..Len(rawItems) :
    (i # j /\ rawItems[i].recent /\ rawItems[j].recent /\ rawItems[i].url # "")
      => rawItems[i].url # rawItems[j].url

\* ---- what the script hands on (scriptWriter.js 56-68, tts.js 19-21) -----
\* the identifiers of the items writeScript was given: one item, whose
\* identifier is one word
SelectedIds == { << "word" >> }

\* C34: every identifier in source_item_ids is the identifier of a RawItem
\* selected in the run, and the list has no duplicates.
CitedItemsWereSelected ==
  writer.phase \in { "returned", "spoken", "audioThrew" } =>
    LET ids == writer.out.source_item_ids
    IN /\ \A k \in 1..Len(ids) : ids[k] \in SelectedIds
       /\ \A a, b \in 1..Len(ids) : a # b => ids[a] # ids[b]

\* C35: every script writeScript accepts (200 characters or more) yields a
\* clean_script generateAudio accepts (100 characters or more).
AcceptedScriptIsSpeakable ==
  writer.phase \in { "returned", "spoken", "audioThrew" } =>
    Length(writer.out.clean_script) >= 100

\* C36: parseSections labels every paragraph at most once: no two sections
\* point to the same paragraph.
ParagraphsLabeledOnce ==
  parser.phase = "returned" =>
    \A a, b \in 1..Len(parser.sections) :
      a # b => parser.sections[a].para # parser.sections[b].para

\* ---- progress events (pipeline.js 43-264) --------------------------------
IsTerminal(e) ==
  e.status \in { "skipped", "failed" } \/ e = Event(11, "completed")

\* the place of an onStatus call in the source: the non-terminal calls
\* come by rising step, 'running' before 'completed' (lines 43-235)
Rank(e) ==
  IF IsTerminal(e) THEN 100
  ELSE 2 * e.step + (IF e.status = "completed" THEN 1 ELSE 0)

\* C37: with a sink that does not throw, the events are delivered in the
\* order the steps execute, nothing follows the terminal event, and a
\* finished run's last event is its terminal event: completed with step 11
\* on success, skipped on a quiet day, failed on a fatal error.
EventsEndWithTerminal ==
  ~SinkThrows(1) =>
    LET ev == events[1]
    IN /\ \A k \in 1..(Len(ev) - 1) :
            Rank(ev[k]) < Rank(ev[k + 1]) /\ ~IsTerminal(ev[k])
       /\ Done(1) =>
            /\ ev # <<>>
            /\ ev[Len(ev)] =
                 CASE result[1] = "episode" -> Event(11, "completed")
                   [] result[1] = "null" -> ev[Len(ev)]
                   [] OTHER -> Event(0, "failed")
            /\ result[1] = "null" => ev[Len(ev)].status = "skipped"

CompletedLast ==
  /\ sink[1] = "ok"
  /\ Done(1)
  /\ result[1] = "episode"
  /\ events[1][Len(events[1])] = Event(11, "completed")

\* ---- the dedup read that fails (pipeline.js 65-100) ----------------------
\* C38: when the read of the recent RawItems returns an error, the run
\* neither aborts nor skips there: no candidate is removed, and all the
\* collected candidates are persisted.
DedupFailsOpen ==
  (Has(hist[1], "recent", "error") /\ ~SinkThrows(1)) =>
    /\ err[1] # "recentRead"
    /\ result[1] # "null"
    /\ Arg(hist[1], "recent") = 0
    /\ Len(items[1]) = Arg(hist[1], "fetch")
    /\ Has(hist[1], "insert", "ok") => PersistedBy(1) = Arg(hist[1], "fetch")

PersistedUndeduplicated ==
  /\ Has(hist[1], "recent", "error")
  /\ Has(hist[1], "insert", "ok")
  /\ Called(hist[1], "score")
  /\ \E i, j \in 1..Len(rawItems) :
       /\ rawItems[i].run = 0 /\ rawItems[i].recent
       /\ rawItems[j].run = 1 /\ rawItems[j].url = rawItems[i].url
====
